---- MODULE Spec2Model ----
(***************************************************************************)
(* Order execution and position lifecycle of the MT5 webhook trading bot   *)
(* (class TradingBot, TradingSignal and webhook_handler), in the two       *)
(* revisions Last_version.py (rev = 0) and Last_version1.py (rev = 1).     *)
(*                                                                         *)
(* Prices are integers in units of 0.0001; volumes are integers in         *)
(* hundredths of a lot.  The broker terminal (MetaTrader5) is the          *)
(* environment: its open positions, quotes and the answers of order_send   *)
(* are chosen nondeterministically.                                        *)
(***************************************************************************)
EXTENDS Integers, Sequences, FiniteSets, TLC

(***************************************************************************)
(* Bounds of the model                                                     *)
(***************************************************************************)
MaxPositions == 2      \* open positions the broker holds at most
MaxTicket == 2         \* highest ticket number the broker hands out
MaxQueue == 1          \* execution tasks waiting on the event loop at most

(***************************************************************************)
(* Program constants                                                       *)
(***************************************************************************)
stop_loss_pips == 50        \* config['trading']['stop_loss_pips']
take_profit_pips == 100     \* config['trading']['take_profit_pips']
max_attempts == 5           \* stop_after_attempt(5)
entry_deviation == 20       \* "deviation": 20 of enter_long / enter_short
close_deviation == 30       \* "deviation": 30 of close_position_by_comment

Revisions == {0, 1}

None == "None"

(***************************************************************************)
(* Webhook payloads.  A payload is the text                                *)
(*   action=<a>;symbol=<s>;volume=<v>;open_position=<o>;position_closed=<c>*)
(* given by its five field texts.                                          *)
(***************************************************************************)
ActionTexts == {"buy", "SELL", "close", ""}
SymbolTexts == {"EURUSD"}
VolumeTexts == {"1.0", "0", "abc"}
OpenTexts == {"Long_1", ""}
CloseTexts == {"Short_2", "Short", ""}

\* every combination of the field texts with the plain volume, and the
\* other volume texts on a buy without a close
Payloads ==
    { p \in [action : ActionTexts, symbol : SymbolTexts, volume : VolumeTexts,
             open_position : OpenTexts, position_closed : CloseTexts] :
        p.volume = "1.0"
          \/ (p.action = "buy" /\ p.open_position = "Long_1" /\ p.position_closed = "") }

\* \w+ : a non-empty run of word characters
MatchesWord(text) == text \in {"buy", "SELL", "enter_short", "close", "EURUSD"}

\* [\w/]+ : a non-empty run of word characters and slashes
MatchesSymbol(text) == MatchesWord(text) \/ text \in {"EUR/USD"}

\* (\w+_\d+)? : the optional group is the tag when the text is one, else None
MatchTag(text) == IF text \in {"Long_1", "Short_2"} THEN text ELSE None

NoSignal ==
    [action |-> "", symbol |-> "", volume |-> "", open_position |-> "",
     position_closed |-> None]

\* TradingSignal.from_webhook: the regular expression of the signal grammar
MatchesGrammar(p) == MatchesWord(p.action) /\ MatchesSymbol(p.symbol)

from_webhook(p) ==
    [action |-> p.action, symbol |-> p.symbol, volume |-> p.volume,
     open_position |-> p.open_position,
     position_closed |-> MatchTag(p.position_closed)]

\* str.lower() on the action texts of the model
\* Texts are spelled as sequences of characters so that str.lower() can be
\* computed character by character.  Capital pairs each cased letter that
\* occurs with its capital; "_" has no case.
Capital ==
    [b |-> "B", c |-> "C", d |-> "D", e |-> "E", g |-> "G", h |-> "H", l |-> "L",
     n |-> "N", o |-> "O", r |-> "R", s |-> "S", t |-> "T", u |-> "U", y |-> "Y"]

BaseWords ==
    { << >>,
      << "b", "u", "y" >>,
      << "s", "e", "l", "l" >>,
      << "c", "l", "o", "s", "e" >>,
      << "h", "o", "l", "d" >>,
      << "b", "u", "y", "s" >>,
      << "s", "e", "l" >>,
      << "e", "n", "t", "e", "r" >>,
      << "e", "n", "t", "e", "r", "_", "l", "o", "n", "g" >>,
      << "e", "n", "t", "e", "r", "_", "s", "h", "o", "r", "t" >> }

\* a word in every mix of small and capital letters
RECURSIVE CaseVariants(_)
CaseVariants(w) ==
    IF w = << >> THEN { << >> }
    ELSE { << c >> \o v :
             c \in {Head(w)} \cup (IF Head(w) \in DOMAIN Capital
                                   THEN {Capital[Head(w)]} ELSE {}),
             v \in CaseVariants(Tail(w)) }

ActionWords == UNION { CaseVariants(w) : w \in BaseWords }

\* the text a sequence of characters spells
RECURSIVE Join(_)
Join(w) == IF w = << >> THEN "" ELSE Head(w) \o Join(Tail(w))

ActionSpellings == { Join(w) : w \in ActionWords }

Spelling == [text \in ActionSpellings |-> CHOOSE w \in ActionWords : Join(w) = text]

Spell(text) == Spelling[text]

\* str.lower() on one character
lower_char(c) ==
    IF \E l \in DOMAIN Capital : Capital[l] = c
    THEN CHOOSE l \in DOMAIN Capital : Capital[l] = c
    ELSE c

\* a lowering that leaves every text as it is
Lower_asis(text) == text

\* str.lower()
Lower(text) ==
    LET w == Spell(text) IN Join([i \in 1..Len(w) |-> lower_char(w[i])])

\* TradingSignal.normalize_action
normalize_action(s) ==
    IF Lower(s.action) \in {"enter_long", "buy"} THEN [s EXCEPT !.action = "BUY"]
    ELSE IF Lower(s.action) \in {"enter_short", "sell"} THEN [s EXCEPT !.action = "SELL"]
    ELSE s

Signals == {normalize_action(from_webhook(p)) : p \in {q \in Payloads : MatchesGrammar(q)}}

\* the signals a direct caller hands to enter_long and enter_short
DirectSignals == {s \in Signals : s.action \in {"BUY", "SELL"} /\ s.position_closed = None}

\* Python truthiness of a str-or-None value
Truthy(v) == v # "" /\ v # None

\* float(text): the value in hundredths, or "ValueError"
FloatParses(text) == text \in {"1.0", "0.5", "0", "-1"}
float(text) ==
    CASE text = "1.0" -> 100
      [] text = "0.5" -> 50
      [] text = "0" -> 0
      [] text = "-1" -> -100
      [] OTHER -> 0

(***************************************************************************)
(* Trading-hours gate                                                      *)
(***************************************************************************)
\* Asia/Shanghai instants at which the clock is read
Instants ==
    << [dow |-> 2, hour |-> 3], [dow |-> 2, hour |-> 5], [dow |-> 2, hour |-> 6],
       [dow |-> 2, hour |-> 7], [dow |-> 5, hour |-> 12] >>

window_start(r) == IF r = 0 THEN 4 ELSE 6
window_end == 7

\* a window test that takes the end hour in
is_trading_time_inclusive(t, r) ==
    IF t.dow >= 5 \/ (t.hour >= window_start(r) /\ t.hour <= window_end) THEN 0 ELSE 1

\* TradingBot.is_trading_time: 1 inside trading hours, 0 outside
is_trading_time(t, r) ==
    IF t.dow >= 5 \/ (t.hour >= window_start(r) /\ t.hour < window_end) THEN 0 ELSE 1

(***************************************************************************)
(* execute_order: the branch taken                                         *)
(***************************************************************************)
\* a comparison that takes every action for the member
ActionIs_any(r, action, member) == TRUE


\* signal.action == ActionType.X (rev 0: str against Enum member, never
\* equal) / signal.action == "X" (rev 1)
ActionIs(r, action, member) == IF r = 0 THEN FALSE ELSE action = member

\* the branch taken if the gate were not consulted and the action were
\* compared by value
execute_order_branch_ungated(r, tradetime, s) ==
    IF Truthy(s.open_position)
    THEN IF s.action = "BUY" THEN "enter_long"
         ELSE IF s.action = "SELL" THEN "enter_short"
         ELSE "unsupported"
    ELSE "else"

execute_order_branch(r, tradetime, s) ==
    IF tradetime # 0 /\ Truthy(s.open_position)
    THEN IF ActionIs(r, s.action, "BUY") THEN "enter_long"
         ELSE IF ActionIs(r, s.action, "SELL") THEN "enter_short"
         ELSE "unsupported"
    ELSE "else"

\* the inner test with the negation lost
else_branch_inverted(tradetime2) == IF tradetime2 # 0 THEN "close_all" ELSE "tag_required"

\* the inner test of the else branch: not self.is_trading_time()
else_branch(tradetime2) == IF tradetime2 = 0 THEN "close_all" ELSE "tag_required"

(***************************************************************************)
(* Retry policy: tenacity's                                                *)
(*   @retry(retry=retry_if_result(is_requote_error),                       *)
(*          stop=stop_after_attempt(5), wait=wait_fixed(1), reraise=True)  *)
(* An attempt's outcome is a returned value or a raised exception.         *)
(***************************************************************************)
Returned(v) == [kind |-> "returned", value |-> v]
Raised(e) == [kind |-> "raised", value |-> e]
NoOutcome == [kind |-> "none", value |-> ""]

ExceptionValues == {"Trade failed", "AttributeError", "ValueError", "NameError", "RetryError"}

\* is_requote_error(result): an Exception instance whose text has the marker
is_requote_error(result) == result \in ExceptionValues /\ result = "Trade failed"

\* retry_if_result: the predicate sees only returned values; a raised
\* exception is never retried
ShouldRetry(outcome) == outcome.kind = "returned" /\ is_requote_error(outcome.value)

\* a retry loop that runs the call again after a success as well
RetryDecision_afterSuccess(outcome, attempts) ==
    IF attempts >= max_attempts THEN "finish" ELSE "again"


\* a retry loop whose wait never ends
RetryDecision_waits(outcome, attempts) == "wait"

\* one pass of the retry loop after an attempt: hand the outcome to the
\* caller, try again after the fixed wait, or give up (RetryError)
RetryDecision(outcome, attempts) ==
    IF ~ShouldRetry(outcome) THEN "finish"
    ELSE IF attempts >= max_attempts THEN "give_up"
    ELSE "again"

(***************************************************************************)
(* Broker gateway answers                                                  *)
(***************************************************************************)
Ticks == {[none |-> TRUE, bid |-> 0, ask |-> 0], [none |-> FALSE, bid |-> 11048, ask |-> 11050]}
Infos == {[none |-> TRUE, point |-> 0], [none |-> FALSE, point |-> 1],
          [none |-> FALSE, point |-> 10]}

\* how many submissions in a row the broker rejects before it accepts one:
\* none, one, all but the last of the retry budget, all of it
RejectScripts == {0, 1, max_attempts - 1, max_attempts}

\* answer of order_send: None, a rejection while the broker still has
\* rejections to give (k > 0), TRADE_RETCODE_DONE otherwise
Answer(k, lost) == IF lost THEN "None" ELSE IF k > 0 THEN "REJECT" ELSE "DONE"

NoRequest ==
    [type |-> "", symbol |-> "", volume |-> 0, price |-> 0, sl |-> 0, tp |-> 0,
     deviation |-> 0, comment |-> "", position |-> 0, filling |-> ""]

(***************************************************************************)
(* enter_long / enter_short: one attempt                                   *)
(***************************************************************************)
\* an entry that goes on to order_send without a quote or an instrument
EntryFault_unguarded(r, s, tick, info) ==
    IF ~FloatParses(s.volume) THEN "ValueError"
    ELSE IF r = 1 THEN "NameError"
    ELSE ""

\* the exception raised before order_send is reached, "" when none is
EntryFault(r, s, tick, info) ==
    IF tick.none THEN "AttributeError"
    ELSE IF info.none THEN "AttributeError"
    ELSE IF ~FloatParses(s.volume) THEN "ValueError"
    ELSE IF r = 1 THEN "NameError"
    ELSE ""

LongRequest(s, tick, info) ==
    [type |-> "BUY", symbol |-> s.symbol, volume |-> float(s.volume),
     price |-> tick.ask,
     sl |-> tick.ask - stop_loss_pips * info.point,
     tp |-> tick.ask + take_profit_pips * info.point,
     deviation |-> entry_deviation, comment |-> s.open_position,
     position |-> 0, filling |-> "IOC"]

ShortRequest(s, tick, info) ==
    [type |-> "SELL", symbol |-> s.symbol, volume |-> float(s.volume),
     price |-> tick.bid,
     sl |-> tick.bid + stop_loss_pips * info.point,
     tp |-> tick.bid - take_profit_pips * info.point,
     deviation |-> entry_deviation, comment |-> s.open_position,
     position |-> 0, filling |-> "IOC"]

\* the gateway calls one attempt of enter_long / enter_short makes
EntryGateway(tick, fault) ==
    IF tick.none THEN << "symbol_info_tick" >>
    ELSE IF fault # "" THEN << "symbol_info_tick", "symbol_info" >>
    ELSE << "symbol_info_tick", "symbol_info", "order_send" >>

\* what the retcode test after order_send makes of the answer
EntryOutcome(answer) ==
    IF answer = "None" THEN Raised("AttributeError")
    ELSE IF answer # "DONE" THEN Raised("Trade failed")
    ELSE Returned("trade_result")

(***************************************************************************)
(* close_position_by_comment: one attempt                                  *)
(***************************************************************************)
\* a lookup that settles for the first position when none carries the comment
FirstMatch_any(ps, comment) ==
    IF \E i \in 1..Len(ps) : ps[i].comment = comment
    THEN CHOOSE i \in 1..Len(ps) : ps[i].comment = comment
    ELSE IF ps # << >> THEN 1 ELSE 0


\* a lookup that finds a position only when no other carries the comment
FirstMatch_unique(ps, comment) ==
    IF \E i \in 1..Len(ps) : ps[i].comment = comment /\
                              \A j \in 1..Len(ps) : ps[j].comment = comment => j = i
    THEN CHOOSE i \in 1..Len(ps) : ps[i].comment = comment
    ELSE 0

\* a lookup that keeps the last position carrying the comment
FirstMatch_last(ps, comment) ==
    IF \E i \in 1..Len(ps) : ps[i].comment = comment
    THEN CHOOSE i \in 1..Len(ps) :
            /\ ps[i].comment = comment
            /\ \A j \in (i + 1)..Len(ps) : ps[j].comment # comment
    ELSE 0

\* index of the first position carrying the comment, 0 when there is none
FirstMatch(ps, comment) ==
    IF \E i \in 1..Len(ps) : ps[i].comment = comment
    THEN CHOOSE i \in 1..Len(ps) :
            /\ ps[i].comment = comment
            /\ \A j \in 1..(i - 1) : ps[j].comment # comment
    ELSE 0

\* a closing request always priced at the ask
CloseRequest_ask(p, tick) ==
    [type |-> IF p.type = "BUY" THEN "SELL" ELSE "BUY",
     symbol |-> p.symbol, volume |-> p.volume,
     price |-> tick.ask,
     sl |-> 0, tp |-> 0,
     deviation |-> close_deviation, comment |-> "closed " \o ToString(p.ticket),
     position |-> p.ticket, filling |-> "FOK"]


CloseRequest(p, tick) ==
    [type |-> IF p.type = "BUY" THEN "SELL" ELSE "BUY",
     symbol |-> p.symbol, volume |-> p.volume,
     price |-> IF p.type = "BUY" THEN tick.bid ELSE tick.ask,
     sl |-> 0, tp |-> 0,
     deviation |-> close_deviation, comment |-> "closed " \o ToString(p.ticket),
     position |-> p.ticket, filling |-> "FOK"]

\* what positions_get gave: a list of positions, or None
Listed(ps) == [listed |-> TRUE, positions |-> ps]
Unlisted == [listed |-> FALSE, positions |-> << >>]

\* what the lookups of an entry gave: symbol_info_tick a quote or None, and,
\* when it is reached, symbol_info an instrument or None; an entry
\* enumerates no positions
Looked(tick, info) ==
    [listed |-> FALSE, positions |-> << >>,
     quote |-> IF tick.none THEN None ELSE "tick",
     instrument |-> IF tick.none THEN "" ELSE IF info.none THEN None ELSE "info"]

\* the gateway calls one attempt of close_position_by_comment makes:
\* listed is whether positions_get gave a list, i the first match or 0
CloseGateway(listed, i, tick, info) ==
    IF ~listed \/ i = 0 THEN << "positions_get" >>
    ELSE IF tick.none THEN << "positions_get", "symbol_info_tick" >>
    ELSE IF info.none THEN << "positions_get", "symbol_info_tick", "symbol_info" >>
    ELSE << "positions_get", "symbol_info_tick", "symbol_info", "order_send" >>

CloseOutcome(answer) ==
    IF answer = "None" THEN Returned(None)
    ELSE IF answer # "DONE" THEN Raised("Trade failed")
    ELSE Returned("trade_result")

RemoveAt(ps, i) == SubSeq(ps, 1, i - 1) \o SubSeq(ps, i + 1, Len(ps))

(***************************************************************************)
(* State                                                                   *)
(***************************************************************************)
VARIABLES
    rev,          \* the revision running: 0 Last_version.py, 1 Last_version1.py
    session,      \* the gateway session: initialized, authorized
    positions,    \* the broker's open positions, in enumeration order
    nextTicket,   \* the ticket the broker gives the next position
    tasks,        \* execute_order tasks created and not yet started
    response,     \* HTTP status of the last webhook answer, 0 before any
    pc,           \* where the event loop's single thread of control is
    cur,          \* the running or last finished operation
    call,         \* the retried boundary call in progress
    snapshot,     \* close_all_positions: the enumeration it iterates
    idx,          \* close_all_positions: index of the next position
    orders,       \* order_send requests of the operation, with the answers
    calls,        \* retried calls of the operation that have returned
    log           \* log lines of the operation

vars == << rev, session, positions, nextTicket, tasks, response, pc, cur, call,
           snapshot, idx, orders, calls, log >>

NoCall ==
    [fn |-> "", signal |-> NoSignal, comment |-> "", ctx |-> "", attempts |-> 0,
     k |-> 0, k0 |-> 0, answers |-> << >>, gateway |-> << >>]

NoInstant == [dow |-> -1, hour |-> -1]

Idle ==
    [op |-> "none", signal |-> NoSignal, gate1 |-> -1, gate2 |-> -1,
     branch |-> "", status |-> "idle", result |-> NoOutcome, listed |-> None,
     escaped |-> "", answer |-> 0, now |-> NoInstant]

\* positions the broker may hold when the bot starts
PositionOf(ticket, kind) ==
    [ticket |-> ticket, symbol |-> "EURUSD", type |-> kind[1], volume |-> 10 * ticket,
     comment |-> kind[2]]

PositionKinds == { <<"BUY", "Long_1">>, <<"SELL", "Short_2">> }

InitialPositions ==
    UNION { { [i \in 1..n |-> PositionOf(i, f[i])] : f \in [1..n -> PositionKinds] }
            : n \in 0..MaxPositions }

\* the session once initialize_mt5 has gone through
Established == [initialized |-> TRUE, authorized |-> TRUE]

NoSession == [initialized |-> FALSE, authorized |-> FALSE]

Init ==
    /\ rev \in Revisions
    /\ session = Established
    /\ positions \in InitialPositions
    /\ nextTicket = Len(positions) + 1
    /\ tasks = << >>
    /\ response = 0
    /\ pc = "idle"
    /\ cur = Idle
    /\ call = NoCall
    /\ snapshot = << >>
    /\ idx = 0
    /\ orders = << >>
    /\ calls = << >>
    /\ log = << >>

(***************************************************************************)
(* webhook_handler                                                         *)
(***************************************************************************)
\* an answer that is left open until the execution is over
webhook_answer_deferred(matched) == IF matched THEN 0 ELSE 400

\* the status of the synchronous answer: 200 after create_task, 400 when
\* from_webhook raised ValueError
webhook_answer(matched) == IF matched THEN 200 ELSE 400

\* an execution task as created: the signal it will execute and the answer
\* its sender was given
Task(s, status) == [signal |-> s, answer |-> status]

webhook_handler(p) ==
    /\ pc = "idle"
    /\ IF MatchesGrammar(p)
       THEN /\ Len(tasks) < MaxQueue
            /\ tasks' = Append(tasks, Task(normalize_action(from_webhook(p)),
                                           webhook_answer(TRUE)))
       ELSE /\ tasks' = tasks
    /\ response' = webhook_answer(MatchesGrammar(p))
    /\ UNCHANGED << rev, session, positions, nextTicket, pc, cur, call, snapshot, idx,
                    orders, calls, log >>

(***************************************************************************)
(* execute_order                                                           *)
(***************************************************************************)
NewCall(fn, s, comment, ctx) ==
    [fn |-> fn, signal |-> s, comment |-> comment, ctx |-> ctx, attempts |-> 0,
     k |-> 0, k0 |-> 0, answers |-> << >>, gateway |-> << >>]

\* the task starts: first reading of the clock and of the gate, and choice
\* of the branch
execute_order ==
    /\ pc = "idle"
    /\ tasks # << >>
    /\ \E t \in 1..Len(Instants) :
       LET s == Head(tasks).signal
           g == is_trading_time(Instants[t], rev)
           b == execute_order_branch(rev, g, s)
           c == [Idle EXCEPT !.op = "execute_order", !.signal = s, !.gate1 = g,
                             !.branch = b, !.status = "running",
                             !.answer = Head(tasks).answer]
       IN  /\ tasks' = Tail(tasks)
           /\ response' = 0
           /\ CASE b \in {"enter_long", "enter_short"} ->
                    /\ cur' = c
                    /\ call' = NewCall(b, s, "", "entry")
                    /\ pc' = "call"
                    /\ log' = << >>
                [] b = "unsupported" ->
                    /\ cur' = [c EXCEPT !.status = "finished"]
                    /\ call' = NoCall
                    /\ pc' = "done"
                    /\ log' = << "Action is not supported." >>
                [] OTHER ->
                    /\ cur' = [c EXCEPT !.now = Instants[t]]
                    /\ call' = NoCall
                    /\ pc' = "else"
                    /\ log' = << >>
    /\ UNCHANGED << rev, session, positions, nextTicket, snapshot, idx, orders, calls >>

\* the clock does not run backwards between two readings of one execution
NotBefore(t2, t1) == t2.dow > t1.dow \/ (t2.dow = t1.dow /\ t2.hour >= t1.hour)

\* the else branch: second reading of the clock and of the gate; outside
\* trading hours close_all_positions starts by enumerating the positions
execute_order_else ==
    /\ pc = "else"
    /\ \E t \in {u \in 1..Len(Instants) : NotBefore(Instants[u], cur.now)},
          listed \in BOOLEAN :
       LET g == is_trading_time(Instants[t], rev)
           b == else_branch(g)
           c == [cur EXCEPT !.gate2 = g, !.branch = b, !.now = NoInstant]
       IN  IF b = "close_all"
           THEN IF listed
                THEN /\ cur' = [c EXCEPT !.listed = "listed"]
                     /\ snapshot' = positions
                     /\ idx' = 1
                     /\ pc' = "loop"
                     /\ log' = log
                ELSE /\ cur' = [c EXCEPT !.status = "finished"]
                     /\ snapshot' = << >>
                     /\ idx' = 0
                     /\ pc' = "done"
                     /\ log' = log \o << "Error: Unable to retrieve positions",
                                          "Now is not trading time, all positions closed." >>
           ELSE /\ listed
                /\ cur' = [c EXCEPT !.status = "finished"]
                /\ snapshot' = << >>
                /\ idx' = 0
                /\ pc' = "done"
                /\ log' = log \o << "Correct open position (like Long_12345) is required!" >>
    /\ UNCHANGED << rev, session, positions, nextTicket, tasks, response, call, orders, calls >>

\* close_all_positions: the loop over the enumeration
close_all_positions ==
    /\ pc = "loop"
    /\ IF idx <= Len(snapshot)
       THEN /\ call' = NewCall("close_position_by_comment", NoSignal,
                               snapshot[idx].comment, "loop")
            /\ pc' = "call"
            /\ UNCHANGED << cur, log >>
       ELSE /\ call' = NoCall
            /\ pc' = "done"
            /\ cur' = [cur EXCEPT !.status = "finished"]
            /\ log' = log \o << "Now is not trading time, all positions closed." >>
    /\ UNCHANGED << rev, session, positions, nextTicket, tasks, response, snapshot, idx,
                    orders, calls >>

(***************************************************************************)
(* The retried boundary calls and what their callers do with the outcome   *)
(***************************************************************************)
\* the close following the entry whatever the entry's outcome
after_entry_swallowed(outcome, s) == IF Truthy(s.position_closed) THEN "close" ELSE "done"

\* execute_order lines 211-213 / 215-217: an exception of the entry leaves
\* the try block, else the close of position_closed follows when it is set
after_entry(outcome, s) ==
    IF outcome.kind = "raised" THEN "except"
    ELSE IF Truthy(s.position_closed) THEN "close"
    ELSE "done"

\* a loop that goes on only after a close that went through
after_loop_close_strict(outcome) ==
    IF outcome = Returned("trade_result") THEN "next" ELSE "except"

\* close_all_positions line 302: an exception of a close leaves the loop
after_loop_close(outcome) == IF outcome.kind = "raised" THEN "except" ELSE "next"

\* a handler that lets everything but a broker rejection pass
except_TradeFailed(err) ==
    IF err = "Trade failed"
    THEN [escaped |-> "", lines |-> << "An error occurred: " \o err >>]
    ELSE [escaped |-> err, lines |-> << >>]

\* execute_order lines 226-228, except Exception as err: every exception of
\* the try block is caught and logged, none leaves execute_order
except_Exception(err) ==
    IF err \in ExceptionValues
    THEN [escaped |-> "", lines |-> << "An error occurred: " \o err >>]
    ELSE [escaped |-> err, lines |-> << >>]

\* the step a caller takes when the retried call hands it the outcome
NextStep(ctx, outcome, s) ==
    CASE ctx = "entry" -> after_entry(outcome, s)
      [] ctx = "loop" -> after_loop_close(outcome)
      [] ctx = "flip" -> IF outcome.kind = "raised" THEN "except" ELSE "done"
      [] OTHER -> "done"

\* an order_send request as submitted, with the quote it was built from and
\* the broker's answer
Sent(req, tick, point, answer) ==
    [request |-> req, bid |-> tick.bid, ask |-> tick.ask, point |-> point,
     answer |-> answer, fn |-> call.fn]

\* a retried call that has returned: the number of times it ran, the
\* gateway calls it made, what its last enumeration gave, the broker's answers to its submissions and what its
\* caller got
CallRecord(attempts, k0, answers, gateway, seen, final) ==
    [fn |-> call.fn, ctx |-> call.ctx, gateway |-> gateway, seen |-> seen,
     arg |-> IF call.fn = "close_position_by_comment" THEN call.comment
             ELSE call.signal.open_position,
     attempts |-> attempts, k0 |-> k0, answers |-> answers, outcome |-> final]

\* the retried call ends with outcome final and control returns to its caller
Finish(final, attempts, k0, answers, gateway, seen, lines) ==
    LET step == NextStep(call.ctx, final, call.signal)
    IN  /\ calls' = Append(calls, CallRecord(attempts, k0, answers, gateway, seen, final))
        /\ CASE step = "close" ->
                 /\ call' = NewCall("close_position_by_comment", call.signal,
                                    call.signal.position_closed, "flip")
                 /\ pc' = "call"
                 /\ cur' = cur
                 /\ idx' = idx
                 /\ log' = log \o lines
             [] step = "next" ->
                 /\ call' = NoCall
                 /\ pc' = "loop"
                 /\ cur' = cur
                 /\ idx' = idx + 1
                 /\ log' = log \o lines
             [] step = "except" ->
                 /\ call' = NoCall
                 /\ pc' = "done"
                 /\ cur' = [cur EXCEPT !.status = "finished", !.result = final,
                                       !.escaped = except_Exception(final.value).escaped]
                 /\ idx' = idx
                 /\ log' = log \o lines \o except_Exception(final.value).lines
             [] OTHER ->
                 /\ call' = NoCall
                 /\ pc' = "done"
                 /\ cur' = [cur EXCEPT !.status = "finished",
                                       !.result = IF call.ctx = "direct" THEN final ELSE @]
                 /\ idx' = idx
                 /\ log' = log \o lines

\* the retry loop waits and runs the call again
Again(attempts, k, k0, answers, gateway, lines) ==
    /\ call' = [call EXCEPT !.attempts = attempts, !.k = k, !.k0 = k0, !.answers = answers,
                            !.gateway = gateway]
    /\ pc' = "call"
    /\ log' = log \o lines
    /\ UNCHANGED << cur, idx, calls >>

AfterAttempt(outcome, k, k0, answers, gateway, seen, lines) ==
    LET attempts == call.attempts + 1
        decision == RetryDecision(outcome, attempts)
    IN  \/ /\ decision = "again"
            /\ Again(attempts, k, k0, answers, gateway, lines)
        \/ /\ decision = "give_up"
            /\ Finish(Raised("RetryError"), attempts, k0, answers, gateway, seen, lines)
        \/ /\ decision = "finish"
            /\ Finish(outcome, attempts, k0, answers, gateway, seen, lines)

Opened(req) ==
    [ticket |-> nextTicket, symbol |-> req.symbol, type |-> req.type,
     volume |-> req.volume, comment |-> req.comment]

\* one attempt of enter_long (fn = "enter_long") or enter_short
Enter(fn) ==
    /\ pc = "call"
    /\ call.fn = fn
    /\ \E tick \in Ticks, info \in Infos, lost \in BOOLEAN, kc \in RejectScripts :
         LET s == call.signal
             first == call.attempts = 0
             k == IF first THEN kc ELSE call.k
             k0 == IF first THEN kc ELSE call.k0
             fault == EntryFault(rev, s, tick, info)
             req == IF fn = "enter_long" THEN LongRequest(s, tick, info)
                    ELSE ShortRequest(s, tick, info)
             answer == Answer(k, lost)
             outcome == IF fault # "" THEN Raised(fault) ELSE EntryOutcome(answer)
             filled == fault = "" /\ answer = "DONE"
         IN  /\ ~first => kc = 0
             /\ fault # "" => (kc = 0 /\ ~lost)
             /\ lost => kc = 0
             /\ filled => /\ Len(positions) < MaxPositions
                          /\ nextTicket <= MaxTicket
                          /\ req.volume > 0
             /\ orders' = IF fault = "" THEN Append(orders, Sent(req, tick, info.point, answer))
                          ELSE orders
             /\ positions' = IF filled THEN Append(positions, Opened(req)) ELSE positions
             /\ nextTicket' = IF filled THEN nextTicket + 1 ELSE nextTicket
             /\ AfterAttempt(outcome,
                             IF fault = "" /\ answer = "REJECT" THEN k - 1 ELSE k, k0,
                             IF fault = "" THEN Append(call.answers, answer) ELSE call.answers,
                             call.gateway \o EntryGateway(tick, fault), Looked(tick, info),
                             IF fault = "" /\ answer = "REJECT"
                             THEN << "Trade failed, retcode" >> ELSE << >>)
    /\ UNCHANGED << rev, session, tasks, response, snapshot >>

enter_long == Enter("enter_long")

enter_short == Enter("enter_short")

\* one attempt of close_position_by_comment
close_position_by_comment ==
    /\ pc = "call"
    /\ call.fn = "close_position_by_comment"
    /\ \E listed \in BOOLEAN, tick \in Ticks, info \in Infos, lost \in BOOLEAN,
          kc \in RejectScripts :
         LET first == call.attempts = 0
             k == IF first THEN kc ELSE call.k
             k0 == IF first THEN kc ELSE call.k0
             i == IF listed THEN FirstMatch(positions, call.comment) ELSE 0
             sends == i # 0 /\ ~tick.none /\ ~info.none
             answer == Answer(k, lost)
             outcome == IF i = 0 THEN Returned(None)
                        ELSE IF ~sends THEN Raised("AttributeError")
                        ELSE CloseOutcome(answer)
             filled == sends /\ answer = "DONE"
             lines == IF ~listed THEN << "Error: Unable to retrieve positions" >>
                      ELSE IF i = 0 THEN << "Error: Position does not exist" >>
                      ELSE IF ~sends THEN << >>
                      ELSE IF answer = "None" THEN << "Error: Order send result is None" >>
                      ELSE IF answer = "REJECT" THEN << "Trade failed, retcode" >>
                      ELSE << >>
         IN  /\ ~first => kc = 0
             /\ ~sends => (kc = 0 /\ ~lost)
             /\ lost => kc = 0
             /\ orders' = IF sends
                          THEN Append(orders, Sent(CloseRequest(positions[i], tick), tick, 0, answer))
                          ELSE orders
             /\ positions' = IF filled THEN RemoveAt(positions, i) ELSE positions
             /\ AfterAttempt(outcome, IF sends /\ answer = "REJECT" THEN k - 1 ELSE k, k0,
                             IF sends THEN Append(call.answers, answer) ELSE call.answers,
                             call.gateway \o CloseGateway(listed, i, tick, info),
                             IF listed THEN Listed(positions) ELSE Unlisted,
                             lines)
    /\ UNCHANGED << rev, session, nextTicket, tasks, response, snapshot >>

\* a boundary call made on the bot directly by a caller other than
\* execute_order
boundary_call ==
    /\ pc = "idle"
    /\ tasks = << >>
    /\ \E fn \in {"enter_long", "enter_short", "close_position_by_comment"},
          s \in DirectSignals \cup {NoSignal}, comment \in {"Long_1", "Short_2"} :
         /\ fn = "close_position_by_comment" <=> s = NoSignal
         /\ fn = "enter_long" => (comment = "Long_1" /\ s.action = "BUY")
         /\ fn = "enter_short" => (comment = "Long_1" /\ s.action = "SELL")
         /\ cur' = [Idle EXCEPT !.op = "direct", !.signal = s, !.status = "running"]
         /\ call' = NewCall(fn, s, IF fn = "close_position_by_comment" THEN comment ELSE "",
                            "direct")
    /\ pc' = "call"
    /\ response' = 0
    /\ UNCHANGED << rev, session, positions, nextTicket, tasks, snapshot, idx, orders, calls, log >>

\* the operation is over: task_callback (task.result() of a finished
\* execute_order task) or the return to the caller of a boundary call;
\* nothing of the operation is retained
task_callback ==
    /\ pc = "done"
    /\ pc' = "idle"
    /\ cur' = Idle
    /\ call' = NoCall
    /\ snapshot' = << >>
    /\ idx' = 0
    /\ orders' = << >>
    /\ calls' = << >>
    /\ log' = << >>
    /\ UNCHANGED << rev, session, positions, nextTicket, tasks, response >>

(***************************************************************************)
(* Environment: the broker closes a position on its own (stop-loss or      *)
(* take-profit hit, manual close)                                          *)
(***************************************************************************)
BrokerClosesPosition ==
    /\ pc # "done"
    /\ \E i \in 1..Len(positions) : positions' = RemoveAt(positions, i)
    /\ UNCHANGED << rev, session, nextTicket, tasks, response, pc, cur, call, snapshot,
                    idx, orders, calls, log >>

Next ==
    \/ \E p \in Payloads : webhook_handler(p)
    \/ execute_order
    \/ execute_order_else
    \/ close_all_positions
    \/ enter_long
    \/ enter_short
    \/ close_position_by_comment
    \/ boundary_call
    \/ task_callback
    \/ BrokerClosesPosition

Spec == Init /\ [][Next]_vars

(***************************************************************************)
(* Properties                                                              *)
(***************************************************************************)
Executing == cur.op = "execute_order"

Finished == pc = "done"

IsEntry(o) == o.request.position = 0

IsClose(o) == o.request.position # 0

\* the broker answered every submission of the retried call c, rejecting
\* exactly k of them in a row
RejectedTimes(c, k) ==
    /\ c.answers # << >>
    /\ \A i \in 1..Len(c.answers) : c.answers[i] # "None"
    /\ c.k0 = k

\* no gateway lookup failed and no volume text was unparsable in the
\* finished execution
NoLookupFault == cur.result.value \notin {"AttributeError", "ValueError"}

\* C1: a retried boundary call whose every submission the broker rejects
\* has run exactly max_attempts = 5 times when it hands the final
\* 'Trade failed' failure to its caller.
C1_RetryExhaustion ==
    \A i \in 1..Len(calls) :
        RejectedTimes(calls[i], max_attempts) =>
            /\ calls[i].attempts = max_attempts
            /\ calls[i].outcome = Raised("Trade failed")

\* C2: a retried boundary call that the broker rejects exactly k < 5 times
\* and then accepts returns the successful result after running exactly
\* k + 1 times.
C2_RetryRecovery ==
    \A i \in 1..Len(calls) : \A k \in 0..(max_attempts - 1) :
        RejectedTimes(calls[i], k) =>
            /\ calls[i].outcome = Returned("trade_result")
            /\ calls[i].attempts = k + 1

\* C3: an execution that found the trading-hours gate closed never submits
\* an entry order, whatever the signal's action, openTag and closeTag.
C3_NoEntryWhenGateClosed ==
    (Executing /\ cur.gate1 = 0) =>
        \A i \in 1..Len(orders) : ~IsEntry(orders[i])

C3_Witness ==
    /\ Executing /\ Finished /\ cur.gate1 = 0
    /\ cur.signal.action = "BUY"
    /\ Truthy(cur.signal.open_position)
    /\ Len(orders) > 0

\* C4: an execution outside trading hours invokes the close once for each
\* position of the enumeration, in order, none skipped.
C4_CloseInvokedPerPosition ==
    (Executing /\ Finished /\ cur.gate1 = 0 /\ cur.gate2 = 0 /\ cur.listed = "listed"
       /\ NoLookupFault) =>
        /\ Len(calls) = Len(snapshot)
        /\ \A i \in 1..Len(calls) : calls[i].arg = snapshot[i].comment

\* C5: when the broker rejects the closing order of one position, closeAll
\* still attempts the close of every remaining position of its enumeration.
C5_CloseAllToleratesRejection ==
    (Executing /\ Finished /\ cur.branch = "close_all"
       /\ (\E j \in 1..Len(orders) : orders[j].answer = "REJECT")) =>
        \A i \in 1..Len(snapshot) :
            i <= Len(calls) /\ calls[i].arg = snapshot[i].comment

\* C6: a BUY signal with a non-empty openTag executed during trading hours
\* results in a submitted entry order with side BUY, price = ask,
\* stopLoss = ask - stopLossPips * point, takeProfit = ask +
\* takeProfitPips * point and comment = openTag.
C6_BuyEntrySubmitted ==
    (Executing /\ Finished /\ cur.gate1 = 1 /\ cur.signal.action = "BUY"
       /\ Truthy(cur.signal.open_position) /\ NoLookupFault) =>
        \E i \in 1..Len(orders) :
            LET o == orders[i] IN
            /\ IsEntry(o)
            /\ o.request.type = "BUY"
            /\ o.request.price = o.ask
            /\ o.request.sl = o.ask - stop_loss_pips * o.point
            /\ o.request.tp = o.ask + take_profit_pips * o.point
            /\ o.request.comment = cur.signal.open_position

\* C7: a SELL signal with a non-empty openTag executed during trading hours
\* results in a submitted entry order with side SELL, price = bid,
\* stopLoss = bid + stopLossPips * point, takeProfit = bid -
\* takeProfitPips * point, so that stopLoss > price > takeProfit.
C7_SellEntrySubmitted ==
    (Executing /\ Finished /\ cur.gate1 = 1 /\ cur.signal.action = "SELL"
       /\ Truthy(cur.signal.open_position) /\ NoLookupFault) =>
        \E i \in 1..Len(orders) :
            LET o == orders[i] IN
            /\ IsEntry(o)
            /\ o.request.type = "SELL"
            /\ o.request.price = o.bid
            /\ o.request.sl = o.bid + stop_loss_pips * o.point
            /\ o.request.tp = o.bid - take_profit_pips * o.point
            /\ o.request.sl > o.request.price
            /\ o.request.price > o.request.tp

\* C8: during trading hours (the gate open at every reading the execution
\* makes) a signal with an empty openTag is rejected: the execution
\* submits no order at all and ends with the tag-required report.
C8_NoOrderWithoutOpenTag ==
    (Executing /\ cur.gate1 = 1 /\ cur.gate2 # 0 /\ ~Truthy(cur.signal.open_position)) =>
        /\ orders = << >>
        /\ calls = << >>
        /\ Finished => log = << "Correct open position (like Long_12345) is required!" >>

C8_Witness ==
    /\ Executing /\ Finished /\ cur.gate1 = 1 /\ cur.gate2 = 1
    /\ ~Truthy(cur.signal.open_position)
    /\ cur.signal.action = "BUY"
    /\ Truthy(cur.signal.position_closed)
    /\ \E i \in 1..Len(positions) : positions[i].comment = cur.signal.position_closed

\* C9: on the entry branch the close of closeTag is attempted only after
\* the entry order was accepted: every closing order follows an accepted
\* entry order of the same execution, and without one no close is called.
AcceptedEntryBefore(j) ==
    \E i \in 1..(j - 1) : IsEntry(orders[i]) /\ orders[i].answer = "DONE"

C9_CloseOnlyAfterAcceptedEntry ==
    (Executing /\ cur.branch \in {"enter_long", "enter_short"}) =>
        /\ \A j \in 1..Len(orders) : IsClose(orders[j]) => AcceptedEntryBefore(j)
        /\ (call.ctx = "flip" \/ \E n \in 1..Len(calls) : calls[n].ctx = "flip")
              => AcceptedEntryBefore(Len(orders) + 1)

C9_Witness ==
    /\ Executing /\ Finished
    /\ cur.branch \in {"enter_long", "enter_short"}
    /\ Truthy(cur.signal.position_closed)
    /\ cur.result.kind = "raised"
    /\ \E i \in 1..Len(positions) : positions[i].comment = cur.signal.position_closed
    /\ \A j \in 1..Len(orders) : ~IsClose(orders[j])

C11_UnsupportedIsNoOp ==
    (Executing /\ cur.gate1 = 1 /\ cur.signal.action \notin {"BUY", "SELL"}
       /\ Truthy(cur.signal.open_position)) =>
        /\ cur.branch = "unsupported"
        /\ Finished
        /\ orders = << >>
        /\ calls = << >>
        /\ log = << "Action is not supported." >>

C11_Witness ==
    /\ Executing /\ Finished /\ cur.gate1 = 1
    /\ cur.signal.action = "close"
    /\ Truthy(cur.signal.open_position)
    /\ Truthy(cur.signal.position_closed)
    /\ \E i \in 1..Len(positions) : positions[i].comment = cur.signal.position_closed

\* C11 as stated, for every openTag: during trading hours a signal whose
\* normalized action is neither BUY nor SELL is reported as unsupported
\* and submits no order.
C11_UnsupportedReportedAlways ==
    (Executing /\ Finished /\ cur.gate1 = 1 /\ cur.gate2 # 0
       /\ cur.signal.action \notin {"BUY", "SELL"}) =>
        /\ orders = << >>
        /\ log = << "Action is not supported." >>

\* C12: no failure escapes a signal execution: whatever the signal and the
\* broker do, execute_order ends normally, and a failure raised inside it
\* is the last line of its log.
C12_NoFailureEscapes ==
    (Executing /\ Finished) =>
        /\ cur.escaped = ""
        /\ cur.result.kind = "raised" =>
              /\ log # << >>
              /\ log[Len(log)] = "An error occurred: " \o cur.result.value

C12_Witness ==
    /\ Executing /\ Finished
    /\ cur.result = Raised("ValueError")
    /\ cur.signal.volume = "abc"
    /\ cur.escaped = ""

IsCloseCall(c) == c.fn = "close_position_by_comment"

Carriers(ps, tag) == {i \in 1..Len(ps) : ps[i].comment = tag}

DirectClose ==
    /\ cur.op = "direct" /\ Finished
    /\ Len(calls) = 1
    /\ IsCloseCall(calls[1])
    /\ calls[1].seen.listed
    /\ calls[1].outcome # Raised("AttributeError")

\* C14: closeByTag(tag) with several open positions of which exactly one
\* carries tag submits exactly one closing order: it references that
\* position's ticket, has the opposite side, the position's own volume and
\* symbol, and is priced at bid for a long position and at ask for a short
\* one; no order references another position.
C14_ClosesOnlyTheTagged ==
    DirectClose =>
        LET ps == calls[1].seen.positions
            tagged == Carriers(ps, calls[1].arg)
        IN  (Len(ps) >= 2 /\ Cardinality(tagged) = 1) =>
                LET p == ps[CHOOSE i \in tagged : TRUE]
                    o == orders[1]
                IN  /\ Len(orders) = 1
                    /\ o.request.position = p.ticket
                    /\ o.request.type = (IF p.type = "BUY" THEN "SELL" ELSE "BUY")
                    /\ o.request.volume = p.volume
                    /\ o.request.symbol = p.symbol
                    /\ o.request.price = (IF p.type = "BUY" THEN o.bid ELSE o.ask)
                    /\ o.bid # o.ask

C14_Witness ==
    /\ DirectClose
    /\ calls[1].arg = "Long_1"
    /\ Len(calls[1].seen.positions) = 2
    /\ calls[1].seen.positions[1].comment = "Short_2"
    /\ calls[1].seen.positions[2].comment = "Long_1"
    /\ Len(orders) = 1
    /\ orders[1].answer = "DONE"
    /\ Len(positions) = 1
    /\ positions[1].comment = "Short_2"

\* the signal grammar: action a word, symbol a run of word characters and
\* slashes, position_closed a word_digits tag or absent
IsWord(text) == text \in {"buy", "SELL", "close", "EURUSD"}

IsTagOrAbsent(text) == text \in {"Long_1", "Short_2", ""}

ObeysGrammar(p) == IsWord(p.action) /\ IsWord(p.symbol) /\ IsTagOrAbsent(p.position_closed)

\* C15: a payload that violates the signal grammar is answered 400 and
\* dispatches nothing (no execution task is created); a payload that
\* matches the grammar is answered 200.
C15_MalformedAnswered400 ==
    [][\A p \in Payloads :
          webhook_handler(p) =>
              IF ObeysGrammar(p)
              THEN response' = 200
              ELSE response' = 400 /\ tasks' = tasks]_vars

\* C16: the synchronous answer to a well-formed signal is fixed when the
\* signal is dispatched, before its execution makes any gateway call, and
\* is 200 whatever the execution does: every waiting task and every
\* execution, at every stage and with every outcome, has the answer 200.
C16_AnswerFixedAtDispatch ==
    /\ \A i \in 1..Len(tasks) : tasks[i].answer = 200
    /\ Executing => cur.answer = 200

C16_Witness ==
    /\ Executing /\ Finished
    /\ cur.answer = 200
    /\ cur.result = Raised("Trade failed")
    /\ \E i \in 1..Len(orders) : orders[i].answer = "REJECT"

\* an execution that has started and has not finished: it is inside a
\* boundary call (a broker call or a retry delay) or between two of them
Suspended == Executing /\ pc \in {"else", "loop", "call"}

\* C17: executions do not block each other: while one execution is inside
\* a broker call or a retry delay, another inbound signal can be accepted.
C17_AcceptsWhileExecuting ==
    Suspended =>
        ENABLED (\E p \in Payloads : MatchesGrammar(p) /\ webhook_handler(p))

AcceptedEntries == {i \in 1..Len(orders) : IsEntry(orders[i]) /\ orders[i].answer = "DONE"}

\* C18: retries never double-open: of the entry orders one signal's
\* operation submits, whatever the broker answers, at most one is accepted,
\* and no entry call gets more than one acceptance.
C18_AtMostOneEntryAccepted ==
    /\ Cardinality(AcceptedEntries) <= 1
    /\ \A n \in 1..Len(calls) :
          Cardinality({i \in 1..Len(calls[n].answers) : calls[n].answers[i] = "DONE"}) <= 1

C18_Witness ==
    /\ Finished
    /\ Cardinality(AcceptedEntries) = 1
    /\ \E i \in 1..Len(positions) :
          /\ positions[i].comment = cur.signal.open_position
          /\ positions[i].ticket = nextTicket - 1

ValidVolume(text) == FloatParses(text) /\ float(text) > 0

\* C19: no order is submitted with an invalid signal: every signal that
\* reaches execution has a volume > 0 and a non-empty symbol, and so has
\* every entry order submitted.
C19_OnlyValidSignalsExecuted ==
    /\ Executing => (ValidVolume(cur.signal.volume) /\ cur.signal.symbol # "")
    /\ \A i \in 1..Len(orders) :
          IsEntry(orders[i]) =>
              (orders[i].request.volume > 0 /\ orders[i].request.symbol # "")

(***************************************************************************)
(* The trading-hours gate on its own: is_trading_time called at every      *)
(* Asia/Shanghai weekday (0 Monday .. 6 Sunday) and hour                   *)
(***************************************************************************)
LocalTimes == [dow : 0..6, hour : 0..23]

gate_reading ==
    /\ pc = "idle"
    /\ \E t \in LocalTimes :
         cur' = [Idle EXCEPT !.op = "is_trading_time", !.now = t,
                             !.gate1 = is_trading_time(t, rev)]
    /\ UNCHANGED << rev, session, positions, nextTicket, tasks, response, pc, call, snapshot,
                    idx, orders, calls, log >>

NextGate == gate_reading

SpecGate == Init /\ [][NextGate]_vars

\* C20: the gate reports closed exactly when the Asia/Shanghai weekday is
\* Saturday or Sunday or the hour h satisfies startHour <= h < endHour
\* (4 and 7 in Last_version.py, 6 and 7 in Last_version1.py), and open
\* otherwise, whatever else the state holds.
C20_GateClosedExactlyInWindow ==
    cur.op = "is_trading_time" =>
        LET startHour == IF rev = 0 THEN 4 ELSE 6
            endHour == 7
            closed == \/ cur.now.dow \in {5, 6}
                      \/ (startHour <= cur.now.hour /\ cur.now.hour < endHour)
        IN  /\ cur.gate1 \in {0, 1}
            /\ cur.gate1 = 0 <=> closed

C20_Witness ==
    /\ cur.op = "is_trading_time"
    /\ rev = 1
    /\ cur.now = [dow |-> 4, hour |-> 5]
    /\ cur.gate1 = 1
    /\ positions # << >>

(***************************************************************************)
(* The trailing stop on its own: a DynamicStopLossTakeProfit object is     *)
(* constructed with a direction, a stop-loss and a trailing distance, then *)
(* adjust_trailing_stop is called any number of times, each call reading   *)
(* the daily rates the gateway returns.  Prices are whole numbers of pips. *)
(***************************************************************************)
MaxPrice == 4
MaxDistance == 2

Prices == 0..MaxPrice
TrailActions == {"BUY", "SELL", "buy"}
TrailDistances == -1..MaxDistance

\* what copy_rates_from_pos may return: nothing, or a list of bars of which
\* only the close prices are read
RatesAnswers ==
    {[rates |-> None, closes |-> << >>]} \cup
    {[rates |-> "bars", closes |-> c] : c \in {<< >>} \cup {<<p>> : p \in Prices}
                                              \cup {<<p, q>> : p, q \in Prices}}

\* get_price_data: iterating over None raises TypeError
get_price_data(answer) ==
    IF answer.rates = None THEN Raised("TypeError") ELSE Returned(answer.closes)

\* the test that moves the stop of a long position without looking at the
\* price
long_moves_always(self, last) == TRUE

long_moves(self, last) == last > self.stop_loss + self.trailing_stop_distance

\* the test that moves the stop of a short position without looking at the
\* price
short_moves_always(self, last) == TRUE

short_moves(self, last) == last < self.stop_loss - self.trailing_stop_distance

\* modify_sl_tp reads the name `order`, which Last_version.py never binds;
\* Last_version1.py does not call it from adjust_trailing_stop
modify_sl_tp(r) == IF r = 0 THEN "NameError" ELSE ""

\* adjust_trailing_stop: the object after the call and the exception that
\* leaves it, if any
adjust_trailing_stop(r, self, answer) ==
    LET price_data == get_price_data(answer) IN
    IF price_data.kind = "raised"
    THEN [self |-> self, escaped |-> price_data.value]
    ELSE IF price_data.value = << >>
    THEN [self |-> self, escaped |-> "IndexError"]
    ELSE LET last == price_data.value[Len(price_data.value)] IN
         [self |-> IF self.action = "BUY" /\ long_moves(self, last)
                   THEN [self EXCEPT !.stop_loss = last - self.trailing_stop_distance]
                   ELSE IF self.action = "SELL" /\ short_moves(self, last)
                   THEN [self EXCEPT !.stop_loss = last + self.trailing_stop_distance]
                   ELSE self,
          escaped |-> modify_sl_tp(r)]

DynamicStopLossTakeProfit ==
    /\ pc = "idle"
    /\ cur = Idle
    /\ \E a \in TrailActions, s \in Prices, d \in TrailDistances :
         cur' = [op |-> "DynamicStopLossTakeProfit",
                 self |-> [action |-> a, stop_loss |-> s, trailing_stop_distance |-> d],
                 before |-> s, closes |-> << >>, escaped |-> ""]
    /\ UNCHANGED << rev, session, positions, nextTicket, tasks, response, pc, call, snapshot,
                    idx, orders, calls, log >>

trailing_call ==
    /\ pc = "idle"
    /\ cur.op \in {"DynamicStopLossTakeProfit", "adjust_trailing_stop"}
    /\ \E answer \in RatesAnswers :
         LET after == adjust_trailing_stop(rev, cur.self, answer) IN
         cur' = [op |-> "adjust_trailing_stop", self |-> after.self,
                 before |-> cur.self.stop_loss, closes |-> answer.closes,
                 escaped |-> after.escaped]
    /\ UNCHANGED << rev, session, positions, nextTicket, tasks, response, pc, call, snapshot,
                    idx, orders, calls, log >>

NextTrail == DynamicStopLossTakeProfit \/ trailing_call

SpecTrail == Init /\ [][NextTrail]_vars

\* C21: across any sequence of adjust_trailing_stop calls the stop-loss of
\* a long (BUY) position never decreases and the stop-loss of a short (SELL)
\* position never increases, whatever close prices the calls read.
C21_TrailingStopOnlyTightens ==
    [][cur'.op = "adjust_trailing_stop" =>
          /\ cur.self.action = "BUY" => cur'.self.stop_loss >= cur.self.stop_loss
          /\ cur.self.action = "SELL" => cur'.self.stop_loss <= cur.self.stop_loss
          /\ cur'.self.action = cur.self.action]_vars

C21_Witness ==
    /\ cur.op = "adjust_trailing_stop"
    /\ cur.self.action = "BUY"
    /\ cur.self.trailing_stop_distance = 1
    /\ cur.closes = <<0, 4>>
    /\ cur.before = 1
    /\ cur.self.stop_loss = 3

(***************************************************************************)
(* Scheduling.  execute_order contains no await, so once the event loop    *)
(* starts a task it runs every step of the execution in turn, and the done *)
(* callback right after; the gateway calls return and the wait between two *)
(* attempts is a fixed second.  A created task is started by the loop.     *)
(***************************************************************************)
Run ==
    \/ execute_order
    \/ execute_order_else
    \/ close_all_positions
    \/ enter_long
    \/ enter_short
    \/ close_position_by_comment
    \/ task_callback

SpecLive == Spec /\ WF_vars(Run)

Dispatched == tasks # << >> \/ pc \in {"else", "loop", "call"}

\* C22: every dispatched execution terminates: a signal that waits in a
\* task or whose execution is under way leads to the end of an execution,
\* for every signal and every broker behaviour; no call is attempted more
\* often than the retry budget allows.
C22_EveryExecutionTerminates ==
    /\ Dispatched ~> Finished
    /\ [](call.attempts <= max_attempts)

C22_Witness ==
    /\ Finished
    /\ Executing
    /\ Len(calls) = 2
    /\ \E i \in 1..Len(calls) : calls[i].outcome.kind = "raised"

(***************************************************************************)
(* Startup.  main constructs the TradingBot, whose constructor calls       *)
(* initialize_mt5, and then starts the server with app.run; in             *)
(* Last_version.py the before_server_start listener init opens the session *)
(* a second time, in Last_version1.py that listener is commented out.      *)
(* The gateway answers each initialize and each login with yes or no.      *)
(***************************************************************************)
\* a quit() that returns to its caller
quit_returns(next) == next

\* quit() and sys.exit(1) raise SystemExit, which nothing catches: the
\* process ends whatever would have come next
quit(next) == "exited"

\* mt5.initialize() then mt5.login(): the session reached and where
\* control goes, next being the place after a session is established
open_session(ok_initialize, ok_login, next) ==
    LET after_initialize == IF ~ok_initialize THEN quit("login") ELSE "login"
        authorized == ok_initialize /\ ok_login
    IN  IF after_initialize = "exited"
        THEN [session |-> NoSession, pc |-> "exited",
              lines |-> << "initialize() failed" >>]
        ELSE [session |-> [initialized |-> ok_initialize, authorized |-> authorized],
              pc |-> IF ~authorized THEN quit(next) ELSE next,
              lines |-> IF ~authorized
                        THEN << "Failed to connect to trade account" >>
                        ELSE << "Connected to trade account" >>]

InitStart ==
    /\ rev \in Revisions
    /\ session = NoSession
    /\ positions \in InitialPositions
    /\ nextTicket = Len(positions) + 1
    /\ tasks = << >>
    /\ response = 0
    /\ pc = "main"
    /\ cur = Idle
    /\ call = NoCall
    /\ snapshot = << >>
    /\ idx = 0
    /\ orders = << >>
    /\ calls = << >>
    /\ log = << >>

\* main: TradingBot(...) runs initialize_mt5 before app.run is reached
initialize_mt5 ==
    /\ pc = "main"
    /\ \E ok_initialize, ok_login \in BOOLEAN :
         LET o == open_session(ok_initialize, ok_login, "app.run") IN
         /\ session' = o.session
         /\ pc' = o.pc
         /\ log' = o.lines
    /\ UNCHANGED << rev, positions, nextTicket, tasks, response, cur, call, snapshot,
                    idx, orders, calls >>

\* app.run: the before_server_start listener, then the server listens
init ==
    /\ pc = "app.run"
    /\ IF rev = 0
       THEN \E ok_initialize, ok_login \in BOOLEAN :
              LET o == open_session(ok_initialize, ok_login, "idle") IN
              /\ session' = o.session
              /\ pc' = o.pc
              /\ log' = IF o.pc = "idle" THEN << >> ELSE o.lines
       ELSE /\ session' = session
            /\ pc' = "idle"
            /\ log' = << >>
    /\ UNCHANGED << rev, positions, nextTicket, tasks, response, cur, call, snapshot,
                    idx, orders, calls >>

NextStart == initialize_mt5 \/ init \/ Next

SpecStart == InitStart /\ [][NextStart]_vars

Serving ==
    \/ pc \in {"idle", "else", "loop", "call", "done"}
    \/ tasks # << >>
    \/ response # 0
    \/ cur # Idle
    \/ orders # << >>

\* C23: a failed gateway initialization or login is fatal at startup: the
\* process exits before the listener starts, so whenever a signal is
\* accepted or executed or an order submitted the session is initialized and
\* authorized, and an exited process does nothing more.
C23_NoServiceWithoutSession ==
    /\ [](Serving => session = Established)
    /\ [](session # Established => pc \in {"main", "exited"})
    /\ [][pc = "exited" =>
            UNCHANGED << rev, session, nextTicket, tasks, response, pc, cur, call,
                         snapshot, idx, orders, calls, log >>]_vars

C23_Witness ==
    /\ pc = "exited"
    /\ session = [initialized |-> TRUE, authorized |-> FALSE]
    /\ log = << "Failed to connect to trade account" >>
    /\ positions # << >>
    /\ tasks = << >>

\* the other side of the case: with a session the listener does start
C23_WitnessServing ==
    /\ session = Established
    /\ Executing
    /\ orders # << >>

IsEntryCall(c) == c.fn \in {"enter_long", "enter_short"}

LookupUnavailable(c) == IsEntryCall(c) /\ (c.seen.quote = None \/ c.seen.instrument = None)

HasLine(line) == \E n \in 1..Len(log) : log[n] = line

\* C24: an unavailable gateway is tolerated per call.  A close by tag whose
\* enumeration gives None logs the error and returns None, having made no
\* other gateway call; a bulk close whose enumeration gives None logs the
\* error and ends with no call and no order; an entry whose quote or
\* instrument lookup gives None submits no order, and the execution it
\* belongs to ends with the exception logged and nothing escaping.
C24_UnavailableGatewayTolerated ==
    /\ \A n \in 1..Len(calls) :
          (IsCloseCall(calls[n]) /\ ~calls[n].seen.listed) =>
             /\ calls[n].outcome = Returned(None)
             /\ calls[n].gateway = << "positions_get" >>
             /\ calls[n].answers = << >>
             /\ HasLine("Error: Unable to retrieve positions")
    /\ (Executing /\ Finished /\ cur.branch = "close_all" /\ cur.listed = None) =>
          /\ orders = << >>
          /\ calls = << >>
          /\ cur.escaped = ""
          /\ HasLine("Error: Unable to retrieve positions")
    /\ \A n \in 1..Len(calls) :
          LookupUnavailable(calls[n]) =>
             /\ calls[n].answers = << >>
             /\ calls[n].outcome = Raised("AttributeError")
             /\ \A j \in 1..Len(orders) : orders[j].fn # calls[n].fn
             /\ (Executing /\ Finished) =>
                   /\ cur.escaped = ""
                   /\ HasLine("An error occurred: AttributeError")

C24_Witness ==
    /\ Executing
    /\ Finished
    /\ Len(calls) = 1
    /\ calls[1].fn = "enter_long"
    /\ calls[1].seen.quote = "tick"
    /\ calls[1].seen.instrument = None
    /\ orders = << >>

C24_WitnessCloseAll ==
    /\ Executing
    /\ Finished
    /\ cur.branch = "close_all"
    /\ cur.listed = None
    /\ positions # << >>

C24_WitnessCloseByTag ==
    /\ Executing
    /\ Finished
    /\ Len(calls) = 2
    /\ IsCloseCall(calls[2])
    /\ ~calls[2].seen.listed
    /\ Len(orders) = 1

Tickets(ps) == { ps[i].ticket : i \in 1..Len(ps) }

\* during a bulk close the n-th call is the turn of the n-th position of
\* the initial enumeration
BulkClose == Executing /\ cur.branch = "close_all" /\ cur.listed = "listed"

\* the position whose turn the n-th call is was no longer open when the
\* call enumerated the positions
GoneAtTurn(n) ==
    /\ calls[n].seen.listed
    /\ snapshot[n].ticket \notin Tickets(calls[n].seen.positions)

RECURSIVE SubmittedBefore(_)
SubmittedBefore(n) ==
    IF n <= 1 THEN 0 ELSE SubmittedBefore(n - 1) + Len(calls[n - 1].answers)

\* the orders the n-th call submitted
OrdersOf(n) ==
    SubSeq(orders, SubmittedBefore(n) + 1, SubmittedBefore(n) + Len(calls[n].answers))

\* C25: close_all_positions defends against the position list changing: when
\* the position whose turn it is is no longer open, the call made for it
\* submits no order for its ticket; if no other position carries its tag the
\* call logs that the position does not exist and returns None, and the
\* loop goes on to the remaining positions of the enumeration.
C25_ToleratesVanishedPosition ==
    BulkClose =>
        \A n \in 1..Len(calls) :
            GoneAtTurn(n) =>
               /\ \A j \in 1..Len(OrdersOf(n)) :
                     OrdersOf(n)[j].request.position # snapshot[n].ticket
               /\ Carriers(calls[n].seen.positions, calls[n].arg) = {} =>
                     /\ OrdersOf(n) = << >>
                     /\ calls[n].outcome = Returned(None)
                     /\ HasLine("Error: Position does not exist")
                     /\ cur.escaped = ""
                     /\ Finished => (n = Len(snapshot) \/ Len(calls) > n)

C25_Witness ==
    /\ BulkClose
    /\ Finished
    /\ Len(snapshot) = 2
    /\ Len(calls) = 2
    /\ GoneAtTurn(1)
    /\ calls[1].outcome = Returned(None)
    /\ Len(orders) = 1
    /\ orders[1].request.position = snapshot[2].ticket
    /\ orders[1].answer = "DONE"
    /\ positions = << >>

\* the vanished position's tag is carried by another position, which the
\* call closes in its place
C25_WitnessSameTag ==
    /\ BulkClose
    /\ Finished
    /\ Len(snapshot) = 2
    /\ snapshot[1].comment = snapshot[2].comment
    /\ GoneAtTurn(1)
    /\ Len(OrdersOf(1)) = 1
    /\ OrdersOf(1)[1].request.position = snapshot[2].ticket

(***************************************************************************)
(* normalize_action on its own: applied, once and twice, to signals whose  *)
(* action is any of the words above in any mix of small and capital        *)
(* letters                                                                 *)
(***************************************************************************)
NormalizeInputs ==
    [action : ActionSpellings, symbol : SymbolTexts,
     volume : {"1.0", "abc"}, open_position : OpenTexts,
     position_closed : {"Short_2", None}]

normalize_call ==
    /\ pc = "idle"
    /\ positions = << >>
    /\ cur = Idle
    /\ \E s \in NormalizeInputs :
         cur' = [op |-> "normalize_action", signal |-> s,
                 result |-> normalize_action(s),
                 twice |-> normalize_action(normalize_action(s))]
    /\ UNCHANGED << rev, session, positions, nextTicket, tasks, response, pc, call,
                    snapshot, idx, orders, calls, log >>

NextNormalize == normalize_call

SpecNormalize == Init /\ [][NextNormalize]_vars

\* the texts that differ from the word only in the case of their letters
IgnoringCase(w) == { Join(v) : v \in CaseVariants(w) }

LongAliases ==
    IgnoringCase(<< "e", "n", "t", "e", "r", "_", "l", "o", "n", "g" >>)
       \cup IgnoringCase(<< "b", "u", "y" >>)

ShortAliases ==
    IgnoringCase(<< "e", "n", "t", "e", "r", "_", "s", "h", "o", "r", "t" >>)
       \cup IgnoringCase(<< "s", "e", "l", "l" >>)

\* C26: normalize_action maps enter_long and buy, in any case, to BUY and
\* enter_short and sell, in any case, to SELL, returns every other action
\* text unchanged, leaves all other fields unchanged, and applied twice
\* gives what it gives applied once.
C26_NormalizeMapsAliases ==
    cur.op = "normalize_action" =>
        /\ cur.result.action =
              (IF cur.signal.action \in LongAliases THEN "BUY"
               ELSE IF cur.signal.action \in ShortAliases THEN "SELL"
               ELSE cur.signal.action)
        /\ cur.result = [cur.signal EXCEPT !.action = cur.result.action]
        /\ cur.twice = cur.result

C26_Witness ==
    /\ cur.op = "normalize_action"
    /\ cur.signal.action = "Enter_SHORT"
    /\ cur.signal.position_closed = "Short_2"
    /\ cur.result.action = "SELL"
    /\ cur.twice.action = "SELL"

C26_WitnessOther ==
    /\ cur.op = "normalize_action"
    /\ cur.signal.action = "Close"
    /\ cur.result.action = "Close"

\* C27: the gate decision is consistent within one execution: a signal with
\* a non-empty open tag never ends in the 'open position required'
\* rejection, and an execution whose first reading of the gate found it
\* closed performs the bulk close, whatever the second reading gives.
C27_GateDecisionConsistent ==
    (Executing /\ Finished) =>
        /\ Truthy(cur.signal.open_position) => cur.branch # "tag_required"
        /\ cur.gate1 = 0 => cur.branch = "close_all"

\* C28: one invocation of close_position_by_comment submits at most one
\* closing order per attempt; when several open positions carry the tag the
\* order is for the first of them in enumeration order and the others are
\* still open when the call returns.
C28_ClosesFirstMatchOnly ==
    /\ \A n \in 1..Len(calls) :
          IsCloseCall(calls[n]) => Len(calls[n].answers) <= calls[n].attempts
    /\ DirectClose =>
          LET ps == calls[1].seen.positions
              tagged == Carriers(ps, calls[1].arg)
          IN  Cardinality(tagged) >= 2 =>
                 LET first == CHOOSE i \in tagged : \A j \in tagged : i <= j IN
                 /\ Len(orders) <= calls[1].attempts
                 /\ \A j \in 1..Len(orders) : orders[j].request.position = ps[first].ticket
                 /\ \A i \in tagged \ {first} : ps[i].ticket \in Tickets(positions)

C28_Witness ==
    /\ DirectClose
    /\ calls[1].arg = "Long_1"
    /\ Len(calls[1].seen.positions) = 2
    /\ calls[1].seen.positions[1].comment = "Long_1"
    /\ calls[1].seen.positions[2].comment = "Long_1"
    /\ Len(orders) = 1
    /\ orders[1].answer = "DONE"
    /\ Tickets(positions) = {calls[1].seen.positions[2].ticket}

AllAccepted == \A j \in 1..Len(orders) : orders[j].answer = "DONE"

\* every gateway call of the bulk close was answered: each enumeration gave
\* a list and each quote and instrument lookup a value
AllAnswered ==
    \A n \in 1..Len(calls) :
        /\ calls[n].seen.listed
        /\ calls[n].outcome # Raised("AttributeError")

\* close_all_positions came to the end of its loop: no call raised
LoopReturned ==
    /\ Len(calls) = Len(snapshot)
    /\ \A n \in 1..Len(calls) : calls[n].outcome.kind = "returned"

NoneLeftOpen == Tickets(snapshot) \cap Tickets(positions) = {}

\* C29, as stated: if the broker accepts every closing order (and no
\* position is opened meanwhile), then when close_all_positions is over none
\* of the positions of its initial enumeration is still open.
C29_AllClosedWhenAccepted ==
    (BulkClose /\ Finished /\ LoopReturned /\ AllAccepted) => NoneLeftOpen

\* C29, amended: if moreover every gateway call the bulk close makes is
\* answered, then close_all_positions has made a call for every position of
\* its initial enumeration and none of them is still open, also when several
\* of them carry the same tag.
C29_AllClosedWhenAnswered ==
    (BulkClose /\ Finished /\ AllAccepted /\ AllAnswered) =>
        /\ Len(calls) = Len(snapshot)
        /\ NoneLeftOpen

C29_Witness ==
    /\ BulkClose
    /\ Finished
    /\ AllAccepted
    /\ AllAnswered
    /\ Len(snapshot) = 2
    /\ snapshot[1].comment = snapshot[2].comment
    /\ Len(orders) = 2
    /\ orders[1].request.position = snapshot[1].ticket
    /\ orders[2].request.position = snapshot[2].ticket
    /\ positions = << >>

====
